---- MODULE Spec2Model ----
(***************************************************************************)
(* Client-side real-time synchronisation engine of the notification        *)
(* dashboard:                                                              *)
(*   - the Transport Client's response interceptor (credential renewal),   *)
(*     src/src/service/api.service.ts                                      *)
(*   - the Stream Client (useSSE hook), src/src/hooks/useSSE.ts            *)
(*   - the Reconciler (NotificationProvider), in its two copies:           *)
(*     src/src/context/notification.context.tsx and src/unnamed/part_003   *)
(* JavaScript runs one macrotask at a time: every action below is one      *)
(* macrotask (a response event, a timer callback, a React effect run).     *)
(* The continuation of an `await` on a settled promise is a microtask; it  *)
(* runs before any other macrotask, which pendingCont enforces.            *)
(***************************************************************************)
EXTENDS Integers, Sequences, FiniteSets, TLC

\* ------------------------------------------------------------- bounds
\* application calls that can be outstanding together
NumCalls == 2
\* POST /users/refresh requests that can exist together
NumRefreshSlots == 2
\* times one call is put on the wire (original + re-sends)
MaxSends == 3
\* renewals that fail in a row
MaxRenewals == 4
\* EventSource objects alive together
MaxES == 2
\* reconnect timers armed together
MaxTimers == 2
\* connect() invocations inside their pre-connect delay
MaxPending == 2
\* identities that can log in
NumUsers == 2
\* fetchNotifications() calls whose requests can be outstanding together
NumFetches == 2
\* distinct notification records the server returns in a user's page 1
NumNotifs == 1
\* length the notification list can grow to by stream pushes
MaxList == 2
\* value the unread counter can grow to by stream pushes, and the largest
\* unread count the server reports
MaxCount == 2
\* mutating calls (markAsRead, markAllAsRead, deleteNotification) that await
\* their API call at the same time
NumOps == 2
\* calls of the provider (refreshes and mutating calls) that await the API at
\* the same time
MaxBusy == 2
\* items in one response body of GET /notification
MaxItems == 1
\* distinct values crypto.randomUUID() (or Date.now()) can return
NumUuids == 2
\* calls of AuthProvider awaiting their API call at the same time
NumAuthCalls == 2
\* runs of AuthProvider's mount effect (StrictMode runs it twice)
MaxEffectRuns == 2

\* ------------------------------------------------------------- program constants
MAX_REFRESH_ATTEMPTS == 3

VARIABLES
    \* ApiService (api.service.ts)
    req,              \* every request known to the axios instance, by id
    isRefreshing,     \* ApiService.isRefreshing
    refreshAttempts,  \* ApiService.refreshAttempts
    pendingCont,      \* settled refresh request whose awaiting renewer has not resumed yet (0: none)
    failedRenewals,   \* history: consecutive failed renewals since the last success, login or bound hit
    user,             \* AuthProvider.user (0: absent)
    \* useSSE (useSSE.ts)
    enabled,              \* the hook's `enabled` option
    eventSourceRef,       \* eventSourceRef.current (0: null)
    reconnectTimeoutRef,  \* reconnectTimeoutRef.current (0: null, Stale: id of a timer that fired)
    isConnectingRef,      \* isConnectingRef.current
    isConnected,          \* useState isConnected
    error,                \* useState error ("null" or "Connection failed")
    sources,              \* readyState of every EventSource object: "none", "connecting", "open", "closed"
    timers,               \* armed setTimeout reconnect timers
    pendingConnects,      \* connect() invocations suspended in the 100 ms delay
    cleanupRegistered,    \* the last effect run returned `cleanup`
    timerDelay,           \* the delay each armed reconnect timer was set with (0: not armed)
    lastEvent,            \* history: the handler that ran last
    prevEvent,            \* history: the handler that ran before it
    stopped,              \* history: stop() was called and no start came after it
    calls,                \* history: callbacks invoked by the handler that ran last
    \* NotificationProvider (notification.context.tsx, part_003)
    copy,             \* which copy of the provider runs: "context" or "part_003"
    fetches,          \* every fetchNotifications() call that has a request outstanding, by slot
    notifications,    \* useState notifications
    unreadCount,      \* useState unreadCount
    loading,          \* useState loading
    isFetchingRef,    \* isFetchingRef.current (part_003 only)
    streamStarted,    \* useSSE has been enabled at least once
    streamUser,       \* the user whose login enabled useSSE last (0: none yet)
    ops,              \* markAsRead/markAllAsRead/deleteNotification calls awaiting their API call
    refreshedFor,     \* history: the current user, once a refresh issued for them was applied (else 0)
    recEvent,         \* history: the kind of provider step that ran last ("update": setUser, a refresh call or a response)
    applied,          \* history: what the last step's refresh completion replaced
    settled,          \* history: the operation that finished in the last step, and how it ended
    raw,              \* a response body of GET /notification: its envelope and its items
    results,          \* what each shape of that body gave when the provider read it
    auth              \* AuthProvider: loading, the refs, its pending calls (history: effect runs, the call that settled last)

apiVars == <<req, isRefreshing, refreshAttempts, pendingCont, failedRenewals, user>>
sseVars == <<enabled, eventSourceRef, reconnectTimeoutRef, isConnectingRef, isConnected,
             error, sources, timers, pendingConnects, cleanupRegistered, timerDelay,
             lastEvent, prevEvent, stopped, calls>>
renewalVars == <<req, isRefreshing, refreshAttempts, pendingCont, failedRenewals>>
normVars == <<raw, results>>
recVars == <<copy, fetches, notifications, unreadCount, loading, isFetchingRef,
             streamStarted, streamUser, ops, refreshedFor, recEvent, applied, settled>>
vars == <<req, isRefreshing, refreshAttempts, pendingCont, failedRenewals, user,
          enabled, eventSourceRef, reconnectTimeoutRef, isConnectingRef, isConnected,
          error, sources, timers, pendingConnects, cleanupRegistered, timerDelay,
          lastEvent, prevEvent, stopped, calls,
          copy, fetches, notifications, unreadCount, loading, isFetchingRef,
          streamStarted, streamUser, ops, refreshedFor, recEvent, applied, settled,
          raw, results, auth>>

\* =====================================================================
\* Transport Client: response interceptor
\* =====================================================================
AppIds == 1..NumCalls
RefreshIds == (NumCalls + 1)..(NumCalls + NumRefreshSlots)
ReqIds == AppIds \cup RefreshIds

\* What the backend (or the network) answers to one request.
Outcomes == {"ok", "401", "500", "network"}

IdleReq == [st |-> "idle", url |-> "api", retry |-> FALSE, sends |-> 0,
            parent |-> 0, waitOn |-> "none", started |-> 0, resp |-> "none"]

\* A fresh request leaving through this.api: no _retry on its config.
NewReq(u, p) == [st |-> "sent", url |-> u, retry |-> FALSE, sends |-> 1,
                 parent |-> p, waitOn |-> "none", started |-> 0, resp |-> "none"]

\* error.response is undefined: nothing came back (unreachable backend, 10 s timeout).
NoResponse(o) == o = "network"

\* Mutant: the refresh endpoint is not recognised.
IsRefreshUrl_Never(u) == FALSE

\* originalRequest.url?.includes("/refresh")
IsRefreshUrl(u) == u = "refresh"

\* The renewal requests currently on the wire (or about to be re-sent).
RefreshInFlight == {k \in ReqIds : req[k].url = "refresh" /\ req[k].st \in {"sent", "waiting"}}

\* History: what a caller that starts to wait is waiting on ("pending": a
\* renewal call that is in flight; it turns "done" when that call completes).
WaitingOn == IF RefreshInFlight = {} THEN "done" ELSE "pending"

\* History: the renewal call has completed, for every caller that waited on it.
RenewalOver(q) ==
    [c \in ReqIds |-> IF q[c].waitOn = "pending" THEN [q[c] EXCEPT !.waitOn = "done"] ELSE q[c]]

\* A renewal call leaves the axios instance in this step.
RenewalIssued == \E k \in RefreshIds : req[k].st = "idle" /\ req'[k].st = "sent"

FreeRefreshSlots == {k \in RefreshIds : req[k].st = "idle"}

\* Mutant: the isRefreshing check is missing, every first 401 renews.
Intercept_NoFlagCheck(o, retry, u) ==
    IF NoResponse(o) THEN "network"
    ELSE IF o # "401" \/ retry THEN "reject"
    ELSE IF IsRefreshUrl(u) THEN "refreshExempt"
    ELSE IF refreshAttempts >= MAX_REFRESH_ATTEMPTS THEN "maxAttempts"
    ELSE "renew"

\* The branch the error handler takes for one failed request.
Intercept(o, retry, u) ==
    IF NoResponse(o) THEN "network"
    ELSE IF o # "401" \/ retry THEN "reject"
    ELSE IF IsRefreshUrl(u) THEN "refreshExempt"
    ELSE IF refreshAttempts >= MAX_REFRESH_ATTEMPTS THEN "maxAttempts"
    ELSE IF isRefreshing THEN "wait"
    ELSE "renew"

\* A request's promise settles; a renewer awaiting it resumes in a microtask.
SettledReq(r, o, state) == [req EXCEPT ![r].st = state, ![r].resp = o]

ContAfter(r) == IF req[r].parent # 0 THEN r ELSE 0

\* ---- the handler's branches (each ends the macrotask) ----

\* Mutant: the plain reject resets the renewal state like the branches below it.
OnReject_ResetsFlags(r, o) ==
    /\ isRefreshing' = FALSE
    /\ refreshAttempts' = 0
    /\ req' = SettledReq(r, o, "rejected")
    /\ pendingCont' = ContAfter(r)
    /\ UNCHANGED <<failedRenewals, user>>

\* `return Promise.reject(error)`: no-response branch and the not-401 / already-retried branch.
OnReject(r, o) ==
    /\ req' = SettledReq(r, o, "rejected")
    /\ pendingCont' = ContAfter(r)
    /\ UNCHANGED <<isRefreshing, refreshAttempts, failedRenewals, user>>

\* A 401 for the refresh endpoint itself: flags reset, error rejected.
OnRefreshExempt(r, o) ==
    /\ isRefreshing' = FALSE
    /\ refreshAttempts' = 0
    /\ req' = SettledReq(r, o, "rejected")
    /\ pendingCont' = ContAfter(r)
    /\ UNCHANGED <<failedRenewals, user>>

\* refreshAttempts >= MAX_REFRESH_ATTEMPTS: flags reset, error rejected.
OnMaxAttempts(r, o) ==
    /\ isRefreshing' = FALSE
    /\ refreshAttempts' = 0
    /\ failedRenewals' = 0
    /\ req' = SettledReq(r, o, "rejected")
    /\ pendingCont' = ContAfter(r)
    /\ UNCHANGED user

\* isRefreshing: suspend in `await new Promise(r => setTimeout(r, 1000))`.
OnWait(r, o) ==
    /\ req' = [req EXCEPT ![r].st = "waiting", ![r].resp = o, ![r].waitOn = WaitingOn]
    /\ UNCHANGED <<isRefreshing, refreshAttempts, pendingCont, failedRenewals, user>>

\* Mutant: the renewer forgets to mark its request as retried.
RetryFlagOfRenewer_Unset == FALSE

\* The value `originalRequest._retry` gets before the renewal call.
RetryFlagOfRenewer == TRUE

\* Become the renewer: flag, counter, _retry, then `await this.refreshToken()`.
OnRenew(r, o) ==
    /\ FreeRefreshSlots # {}
    /\ failedRenewals < MaxRenewals
    /\ req[r].sends < MaxSends
    /\ LET k == CHOOSE x \in FreeRefreshSlots : \A y \in FreeRefreshSlots : x <= y
       IN req' = [req EXCEPT ![r].st = "renewing",
                             ![r].resp = o,
                             ![r].retry = RetryFlagOfRenewer,
                             ![r].started = @ + 1,
                             ![k] = NewReq("refresh", r)]
    /\ isRefreshing' = TRUE
    /\ refreshAttempts' = refreshAttempts + 1
    /\ UNCHANGED <<pendingCont, failedRenewals, user>>

\* ---- macrotasks ----

\* An application caller issues a call (a finished call's slot is taken by a new call).
Issue(c) ==
    /\ pendingCont = 0
    /\ req[c].st \in {"idle", "resolved", "rejected"}
    /\ req' = [req EXCEPT ![c] = NewReq("api", 0)]
    /\ UNCHANGED <<isRefreshing, refreshAttempts, pendingCont, failedRenewals, user>>
    /\ UNCHANGED <<sseVars, recVars, normVars, auth>>

\* The response (or the absence of one) of a request on the wire reaches the interceptors.
Respond(r, o) ==
    /\ pendingCont = 0
    /\ req[r].st = "sent"
    /\ IF o = "ok"
       THEN /\ req' = SettledReq(r, o, "resolved")
            /\ pendingCont' = ContAfter(r)
            /\ UNCHANGED <<isRefreshing, refreshAttempts, failedRenewals, user>>
       ELSE CASE Intercept(o, req[r].retry, req[r].url) \in {"network", "reject"} -> OnReject(r, o)
              [] Intercept(o, req[r].retry, req[r].url) = "refreshExempt" -> OnRefreshExempt(r, o)
              [] Intercept(o, req[r].retry, req[r].url) = "maxAttempts" -> OnMaxAttempts(r, o)
              [] Intercept(o, req[r].retry, req[r].url) = "wait" -> OnWait(r, o)
              [] OTHER -> OnRenew(r, o)
    /\ UNCHANGED <<sseVars, recVars, normVars, auth>>

\* The 1000 ms of the wait branch are over: `return this.api.request(originalRequest)`.
WaitElapsed(r) ==
    /\ pendingCont = 0
    /\ req[r].st = "waiting"
    /\ req[r].sends < MaxSends
    /\ req' = [req EXCEPT ![r].st = "sent", ![r].sends = @ + 1]
    /\ UNCHANGED <<isRefreshing, refreshAttempts, pendingCont, failedRenewals, user>>
    /\ UNCHANGED <<sseVars, recVars, normVars, auth>>

\* Mutant: a successful renewal leaves the attempt counter as it is.
OnRenewSuccess_KeepsAttempts(p, k) ==
    /\ refreshAttempts' = refreshAttempts
    /\ isRefreshing' = FALSE
    /\ failedRenewals' = 0
    /\ req' = RenewalOver([req EXCEPT ![k] = IdleReq, ![p].st = "sent", ![p].sends = @ + 1])
    /\ pendingCont' = 0
    /\ UNCHANGED user

\* refreshToken() resolved: reset the counter, clear the flag, re-send the original.
OnRenewSuccess(p, k) ==
    /\ refreshAttempts' = 0
    /\ isRefreshing' = FALSE
    /\ failedRenewals' = 0
    /\ req' = RenewalOver([req EXCEPT ![k] = IdleReq, ![p].st = "sent", ![p].sends = @ + 1])
    /\ pendingCont' = 0
    /\ UNCHANGED user

\* Mutant: a failed renewal ends the session from inside the interceptor.
OnRenewFailure_ForcesLogout(p, k) ==
    /\ isRefreshing' = FALSE
    /\ refreshAttempts' = 0
    /\ failedRenewals' = failedRenewals + 1
    /\ req' = RenewalOver([req EXCEPT ![k] = IdleReq, ![p].st = "rejected"])
    /\ pendingCont' = ContAfter(p)
    /\ user' = 0

\* refreshToken() rejected: `catch (refreshError)`, flags reset, reject.
OnRenewFailure(p, k) ==
    /\ isRefreshing' = FALSE
    /\ refreshAttempts' = 0
    /\ failedRenewals' = failedRenewals + 1
    /\ req' = RenewalOver([req EXCEPT ![k] = IdleReq, ![p].st = "rejected"])
    /\ pendingCont' = ContAfter(p)
    /\ UNCHANGED user

\* The renewer resumes after `await this.refreshToken()`.
Continue(k) ==
    /\ pendingCont = k
    /\ k # 0
    /\ IF req[k].st = "resolved"
       THEN OnRenewSuccess(req[k].parent, k)
       ELSE OnRenewFailure(req[k].parent, k)
    /\ UNCHANGED <<sseVars, recVars, normVars, auth>>

\* apiService.login() got its response (counter reset), AuthProvider.login sets the user.
LoginOk ==
    /\ pendingCont = 0
    /\ user = 0
    /\ refreshAttempts' = 0
    /\ failedRenewals' = 0
    /\ user' = 1
    /\ UNCHANGED <<req, isRefreshing, pendingCont>>
    /\ UNCHANGED <<sseVars, recVars, normVars, auth>>

\* apiService.logout() finished (counter reset in `finally`), AuthProvider.logout clears the user.
Logout ==
    /\ pendingCont = 0
    /\ user # 0
    /\ refreshAttempts' = 0
    /\ failedRenewals' = 0
    /\ user' = 0
    /\ UNCHANGED <<req, isRefreshing, pendingCont>>
    /\ UNCHANGED <<sseVars, recVars, normVars, auth>>

\* =====================================================================
\* Stream Client: the useSSE hook
\* =====================================================================
ESIds == 1..MaxES
TimerIds == 1..MaxTimers

\* reconnectTimeoutRef.current still holding the id of a timer that has fired.
Stale == MaxTimers + 1

\* `enabled` as captured by the closure of connect(): connect is only defined
\* by an effect run that got past `if (!enabled)`.
CapturedEnabled == TRUE

\* The refs and states of the hook as one value, for sequencing its functions.
Cur == [eventSourceRef |-> eventSourceRef, reconnectTimeoutRef |-> reconnectTimeoutRef,
        isConnectingRef |-> isConnectingRef, isConnected |-> isConnected, error |-> error,
        sources |-> sources, timers |-> timers, pendingConnects |-> pendingConnects,
        timerDelay |-> timerDelay]

Becomes(s) ==
    /\ eventSourceRef' = s.eventSourceRef
    /\ reconnectTimeoutRef' = s.reconnectTimeoutRef
    /\ isConnectingRef' = s.isConnectingRef
    /\ isConnected' = s.isConnected
    /\ error' = s.error
    /\ sources' = s.sources
    /\ timers' = s.timers
    /\ pendingConnects' = s.pendingConnects
    /\ timerDelay' = s.timerDelay

\* EventSource objects that have been created and not closed.
LiveSources == {e \in ESIds : sources[e] \in {"connecting", "open"}}

FreeSources == {e \in ESIds : sources[e] \in {"none", "closed"}}

FreeTimers == {t \in TimerIds : t \notin timers}

\* Mutant: cleanup leaves the reconnect timer armed.
cleanup_KeepsTimer(s) ==
    [s EXCEPT !.reconnectTimeoutRef = 0,
              !.sources = IF s.eventSourceRef # 0
                          THEN [@ EXCEPT ![s.eventSourceRef] = "closed"] ELSE @,
              !.eventSourceRef = 0,
              !.isConnectingRef = FALSE,
              !.isConnected = FALSE,
              !.error = "null"]

\* cleanup(): clear the timer, close the referenced EventSource, reset flags.
cleanup(s) ==
    [s EXCEPT !.timers = IF s.reconnectTimeoutRef # 0 THEN @ \ {s.reconnectTimeoutRef} ELSE @,
              !.timerDelay = IF s.reconnectTimeoutRef \in TimerIds
                             THEN [@ EXCEPT ![s.reconnectTimeoutRef] = 0] ELSE @,
              !.reconnectTimeoutRef = 0,
              !.sources = IF s.eventSourceRef # 0
                          THEN [@ EXCEPT ![s.eventSourceRef] = "closed"] ELSE @,
              !.eventSourceRef = 0,
              !.isConnectingRef = FALSE,
              !.isConnected = FALSE,
              !.error = "null"]

\* Mutant: connect() without its guard.
connect_NoGuard(s) == [s EXCEPT !.isConnectingRef = TRUE, !.pendingConnects = @ + 1]

\* connect() up to its `await`: the guard, then isConnectingRef and the delay.
connect(s) ==
    IF s.eventSourceRef # 0 \/ s.isConnectingRef
    THEN s
    ELSE [s EXCEPT !.isConnectingRef = TRUE, !.pendingConnects = @ + 1]

\* The body of the effect for one value of `enabled`; reg: it returned `cleanup`.
EffectBody(s, e) ==
    IF ~e THEN [state |-> cleanup(s), reg |-> FALSE]
    ELSE IF s.isConnectingRef THEN [state |-> s, reg |-> FALSE]
    ELSE [state |-> connect(s), reg |-> TRUE]

\* Math.min(30000, 5000): the ceiling and the base of the reconnect delay (ms).
MaxDelay == 30000
BaseDelay == 5000

Min(a, b) == IF a <= b THEN a ELSE b

\* Mutant: the base delay grows with no ceiling applied.
RetryDelay_Uncapped == BaseDelay * 8

\* const retryDelay = Math.min(30000, 5000)
RetryDelay == Min(MaxDelay, BaseDelay)

NoCalls == [connected |-> 0, notification |-> 0]

\* Mutant: onopen forgets to notify.
OnOpenCalls_None == NoCalls

\* onopen: onConnected?.()
OnOpenCalls == [connected |-> 1, notification |-> 0]

\* The kinds of message event the stream delivers: a notification with a
\* payload, an event of another type (connected, broadcast, message), or
\* data that JSON.parse rejects.
MessageKinds == {"notification", "other", "malformed"}

\* onmessage: onNotification?.(data.data) for a parsed notification event.
OnMessageCalls(kind) ==
    [connected |-> 0, notification |-> IF kind = "notification" THEN 1 ELSE 0]

\* History of the handlers that ran.
Ran(ev, c) ==
    /\ prevEvent' = lastEvent
    /\ lastEvent' = ev
    /\ calls' = c

\* `enabled` changes: React runs the previous run's cleanup, then the effect.
SetEnabled(e) ==
    /\ enabled # e
    /\ LET s0 == IF cleanupRegistered THEN cleanup(Cur) ELSE Cur
           run == EffectBody(s0, e)
       IN /\ run.state.pendingConnects <= MaxPending
          /\ Becomes(run.state)
          /\ cleanupRegistered' = run.reg
    /\ enabled' = e
    /\ stopped' = ~e
    /\ Ran(IF e THEN "start" ELSE "stop", NoCalls)

\* The 100 ms of connect() are over: new EventSource, handlers, eventSourceRef.
DelayElapsed ==
    /\ pendingConnects > 0
    /\ FreeSources # {}
    /\ LET e == CHOOSE x \in FreeSources : \A y \in FreeSources : x <= y
       IN /\ sources' = [sources EXCEPT ![e] = "connecting"]
          /\ eventSourceRef' = e
    /\ pendingConnects' = pendingConnects - 1
    /\ Ran("delay", NoCalls)
    /\ UNCHANGED <<enabled, reconnectTimeoutRef, isConnectingRef, isConnected, error,
                   timers, cleanupRegistered, timerDelay, stopped>>

\* eventSource.onopen
ESOpen(e) ==
    /\ sources[e] = "connecting"
    /\ sources' = [sources EXCEPT ![e] = "open"]
    /\ isConnected' = TRUE
    /\ error' = "null"
    /\ isConnectingRef' = FALSE
    /\ Ran("open", OnOpenCalls)
    /\ UNCHANGED <<enabled, eventSourceRef, reconnectTimeoutRef, timers, pendingConnects,
                   cleanupRegistered, timerDelay, stopped>>

\* eventSource.onmessage
ESMessage(e, kind) ==
    /\ sources[e] = "open"
    /\ Ran("message", OnMessageCalls(kind))
    /\ UNCHANGED <<enabled, eventSourceRef, reconnectTimeoutRef, isConnectingRef, isConnected,
                   error, sources, timers, pendingConnects, cleanupRegistered, timerDelay,
                   stopped>>

\* eventSource.onerror on EventSource e. The browser has either given up on e
\* (fatal: readyState CLOSED) or is reconnecting it itself (CONNECTING).
ESError(e, fatal) ==
    /\ sources[e] \in {"connecting", "open"}
    /\ FreeTimers # {}
    /\ LET t == CHOOSE x \in FreeTimers : \A y \in FreeTimers : x <= y
           afterBrowser == [sources EXCEPT ![e] = IF fatal THEN "closed" ELSE "connecting"]
       IN /\ sources' = IF eventSourceRef # 0
                        THEN [afterBrowser EXCEPT ![eventSourceRef] = "closed"]
                        ELSE afterBrowser
          /\ timers' = timers \cup {t}
          /\ timerDelay' = [timerDelay EXCEPT ![t] = RetryDelay]
          /\ reconnectTimeoutRef' = t
    /\ isConnected' = FALSE
    /\ error' = "Connection failed"
    /\ isConnectingRef' = FALSE
    /\ eventSourceRef' = 0
    /\ Ran("error", NoCalls)
    /\ UNCHANGED <<enabled, pendingConnects, cleanupRegistered, stopped>>

\* A reconnect timer fires: `if (enabled) connect()` with the captured `enabled`.
TimerFire(t) ==
    /\ t \in timers
    /\ LET s0 == [Cur EXCEPT !.timers = @ \ {t},
                             !.timerDelay = [@ EXCEPT ![t] = 0],
                             !.reconnectTimeoutRef = IF @ = t THEN Stale ELSE @]
           s1 == IF CapturedEnabled THEN connect(s0) ELSE s0
       IN /\ s1.pendingConnects <= MaxPending
          /\ Becomes(s1)
    /\ Ran("timer", NoCalls)
    /\ UNCHANGED <<enabled, cleanupRegistered, stopped>>

\* The exposed `disconnect` (the same cleanup function), called by the owner.
Disconnect ==
    /\ Becomes(cleanup(Cur))
    /\ stopped' = TRUE
    /\ Ran("stop", NoCalls)
    /\ UNCHANGED <<enabled, cleanupRegistered>>

\* A step of the hook alone: nothing else in the application moves.
HookOnly(A) == A /\ UNCHANGED <<apiVars, recVars, normVars, auth>>

\* =====================================================================
\* Reconciler: NotificationProvider
\* =====================================================================
\* The repository holds two copies of the provider: notification.context.tsx
\* and part_003 (which adds isFetchingRef, the extract functions and the
\* disconnect on logout). The provider sees the Stream Client through the
\* callbacks it passes to useSSE and through `enabled: !!user`.

Copies == {"context", "part_003"}

UserIds == 1..NumUsers
FetchIds == 1..NumFetches
\* Record ids are unique across users: user u owns the ids of NotifIdsOf(u).
NotifIds == 1..(NumNotifs * NumUsers)
NotifIdsOf(u) == ((u - 1) * NumNotifs + 1)..(u * NumNotifs)

\* A request of a fetch: not sent, outstanding, resolved with a body that has
\* the data, resolved with a body that lacks it (success false or no data),
\* or rejected (an error status or no response).
Bodies == {"data", "nodata"}
Settlements == Bodies \cup {"rejected"}

\* list, count: the two requests; running: Promise.all has not settled yet;
\* owner: the user whose session cookie the requests were sent with.
IdleFetch == [list |-> "none", count |-> "none", running |-> FALSE, owner |-> 0]

\* The i-th record of user u, as the server first delivers it.
Notif(i, u) == [id |-> (u - 1) * NumNotifs + i, isRead |-> FALSE, userId |-> u]

\* Page 1 of user u as the server returns it, newest first, for each number
\* of records.
Page(n, u) == [i \in 1..n |-> Notif(n + 1 - i, u)]
PagePayloads(u) == {Page(n, u) : n \in 0..NumNotifs}
\* The unread count covers every page, so it can exceed the length of page 1.
CountPayloads == 0..MaxCount

NotApplied == [set |-> FALSE, count |-> FALSE]

\* No operation of the provider finished in the step.
NoneSettled == [op |-> "none", how |-> "none"]

\* A call of markAsRead, markAllAsRead or deleteNotification that awaits its
\* API call; wasUnread: what deleteNotification's lookup in the list of its
\* closure gives.
OpIds == 1..NumOps
IdleOp == [kind |-> "none", id |-> 0, wasUnread |-> FALSE]

RecCur == [user |-> user, fetches |-> fetches, notifications |-> notifications,
           unreadCount |-> unreadCount, loading |-> loading,
           isFetchingRef |-> isFetchingRef, applied |-> NotApplied,
           settled |-> NoneSettled]

RecBecomes(s) ==
    /\ user' = s.user
    /\ fetches' = s.fetches
    /\ notifications' = s.notifications
    /\ unreadCount' = s.unreadCount
    /\ loading' = s.loading
    /\ isFetchingRef' = s.isFetchingRef
    /\ applied' = s.applied
    /\ settled' = s.settled

FreeFetches(s) == {k \in FetchIds : s.fetches[k] = IdleFetch}

\* fetchNotifications() gets past its guards: `if (!user) return`, and in
\* part_003 `if (isFetchingRef.current) return`.
PassesGuards(s) == s.user # 0 /\ ~(copy = "part_003" /\ s.isFetchingRef)

\* fetchNotifications() up to its `await Promise.all([...])`.
fetchNotifications(s) ==
    IF ~PassesGuards(s) THEN s
    ELSE LET k == CHOOSE x \in FreeFetches(s) : \A y \in FreeFetches(s) : x <= y
         IN [s EXCEPT !.fetches[k] = [list |-> "pending", count |-> "pending",
                                      running |-> TRUE, owner |-> s.user],
                      !.loading = TRUE,
                      !.isFetchingRef = (copy = "part_003")]

\* Calls of the provider that await the API: refreshes and mutating calls.
Busy(s) ==
    Cardinality(FetchIds \ FreeFetches(s)) + Cardinality({k \in OpIds : ops[k].kind # "none"})

\* The model has a slot for the requests the call would issue.
HasSlotFor(s) == PassesGuards(s) => (FreeFetches(s) # {} /\ Busy(s) < MaxBusy)

\* The statements after the await, once both requests resolved with bodies
\* list and count, carrying the page L and the number c.
ApplyResponses(s, list, count, L, c) ==
    IF copy = "context"
    THEN [s EXCEPT !.notifications = IF list = "data" THEN L ELSE @,
                   !.unreadCount = IF count = "data" THEN c ELSE @,
                   !.applied = [set |-> list = "data", count |-> count = "data"]]
    ELSE [s EXCEPT !.notifications = IF list = "data" THEN L ELSE <<>>,
                   !.unreadCount = IF count = "data" THEN c ELSE 0,
                   !.applied = [set |-> TRUE, count |-> TRUE]]

\* The try block of operation op ran to its end: the promise of the async
\* function is fulfilled.
Returned(s, op) == [s EXCEPT !.settled = [op |-> op, how |-> "ok"]]

\* Mutant: the catch block throws the error on to the caller.
Caught_Rethrows(s, op) == [s EXCEPT !.settled = [op |-> op, how |-> "thrown"]]

\* catch (error) { console.error(...) }: the error stops here and the promise
\* of the async function is fulfilled.
Caught(s, op) == [s EXCEPT !.settled = [op |-> op, how |-> "caught"]]

\* Mutant: no finally block.
Finally_Missing(s) == s

\* finally { setLoading(false); isFetchingRef.current = false }
Finally(s) == [s EXCEPT !.loading = FALSE, !.isFetchingRef = FALSE]

\* A slot is free again when neither of its requests is outstanding.
Released(f) == IF f.list # "pending" /\ f.count # "pending" THEN IdleFetch ELSE f

\* One request of fetch k settles with o. Promise.all rejects at the first
\* rejection (the other request stays outstanding, its result is dropped) and
\* resolves when both requests have resolved.
RequestSettles(s, k, which, o, L, c) ==
    LET f == [s.fetches[k] EXCEPT ![which] = o]
    IN IF ~f.running
       THEN [s EXCEPT !.fetches[k] = Released(f)]
       ELSE IF o = "rejected"
       THEN [Finally(Caught(s, "fetchNotifications"))
                EXCEPT !.fetches[k] = Released([f EXCEPT !.running = FALSE])]
       ELSE IF f.list \in Bodies /\ f.count \in Bodies
       THEN [Finally(Returned(ApplyResponses(s, f.list, f.count, L, c), "fetchNotifications"))
                EXCEPT !.fetches[k] = IdleFetch]
       ELSE [s EXCEPT !.fetches[k] = f]

\* Mutant: the connected callback fetches, as it did before the fix.
onConnected_Refetches(s) == IF HasSlotFor(s) THEN fetchNotifications(s) ELSE s

\* onConnected: () => { console.log(...) }
onConnected(s) == s

\* onNotification: prepend to the list, add one to the counter.
onNotification(s, n) ==
    [s EXCEPT !.notifications = <<n>> \o @, !.unreadCount = @ + 1]

\* The provider's effect on the user.
ProviderEffect(s) ==
    IF s.user # 0 THEN fetchNotifications(s)
    ELSE [s EXCEPT !.notifications = <<>>, !.unreadCount = 0, !.loading = FALSE]

\* The effect's dependencies changed when setUser(new) replaced old: the
\* user object in notification.context.tsx (login, register and checkAuth
\* each pass a new object), user?.id in part_003.
DepsChanged(old, new) == IF copy = "context" THEN TRUE ELSE old # new

RecRan(ev) == recEvent' = ev

\* AuthProvider calls setUser(u) (0: null); the provider renders and its effect
\* runs if its dependencies changed. useSSE's own effect (enabled: !!user) is
\* SetEnabled; part_003 calls disconnectSSE too when the user is null.
SetUser(u) ==
    /\ ~(u = 0 /\ user = 0)
    /\ LET s0 == [RecCur EXCEPT !.user = u]
           s1 == IF DepsChanged(user, u) THEN ProviderEffect(s0) ELSE s0
       IN /\ DepsChanged(user, u) => HasSlotFor(s0)
          /\ RecBecomes(s1)
    /\ streamStarted' = (streamStarted \/ u # 0)
    /\ streamUser' = IF user = 0 /\ u # 0 THEN u ELSE streamUser
    /\ refreshedFor' = IF u = user THEN refreshedFor ELSE 0
    /\ RecRan("update")
    /\ UNCHANGED <<copy, ops, renewalVars, sseVars, normVars, auth>>

\* A consumer of the context calls fetchNotifications().
Refresh ==
    /\ HasSlotFor(RecCur)
    /\ RecBecomes(fetchNotifications(RecCur))
    /\ RecRan("update")
    /\ UNCHANGED <<copy, streamStarted, streamUser, ops, refreshedFor, renewalVars, sseVars, normVars, auth>>

\* With `which` settling with o, Promise.all of fetch k resolves.
Resolves(k, which, o) ==
    LET f == [fetches[k] EXCEPT ![which] = o]
    IN f.running /\ f.list \in Bodies /\ f.count \in Bodies

\* The pages and numbers the bodies of fetch k can carry when they are read.
PagesRead(k, which, o) ==
    IF Resolves(k, which, o) /\ [fetches[k] EXCEPT ![which] = o].list = "data"
    THEN PagePayloads(fetches[k].owner) ELSE {<<>>}

CountsRead(k, which, o) ==
    IF Resolves(k, which, o) /\ [fetches[k] EXCEPT ![which] = o].count = "data"
    THEN CountPayloads ELSE {0}

\* History: the refresh that resolves in this step was issued for the user
\* who is logged in now, and its page replaced the list.
RefreshedNow(k, which, o) ==
    IF Resolves(k, which, o) /\ fetches[k].owner = user /\ user # 0 /\ applied'.set
    THEN user ELSE refreshedFor

\* GET /notification?page=1&limit=20 of fetch k settles.
ListResponds(k, o) ==
    /\ fetches[k].list = "pending"
    /\ \E L \in PagesRead(k, "list", o), c \in CountsRead(k, "list", o) :
          RecBecomes(RequestSettles(RecCur, k, "list", o, L, c))
    /\ refreshedFor' = RefreshedNow(k, "list", o)
    /\ RecRan("update")
    /\ UNCHANGED <<copy, streamStarted, streamUser, ops, renewalVars, sseVars, normVars, auth>>

\* GET /notification/unread/count of fetch k settles.
CountResponds(k, o) ==
    /\ fetches[k].count = "pending"
    /\ \E L \in PagesRead(k, "count", o), c \in CountsRead(k, "count", o) :
          RecBecomes(RequestSettles(RecCur, k, "count", o, L, c))
    /\ refreshedFor' = RefreshedNow(k, "count", o)
    /\ RecRan("update")
    /\ UNCHANGED <<copy, streamStarted, streamUser, ops, renewalVars, sseVars, normVars, auth>>

\* An EventSource of the hook opens: onopen calls the provider's onConnected.
\* (setIsConnected(true) renders the provider again; the dependencies of its
\* effect are the same, so the effect does not run.)
StreamConnected ==
    /\ streamStarted
    /\ RecBecomes(onConnected(RecCur))
    /\ RecRan("connected")
    /\ UNCHANGED <<copy, streamStarted, streamUser, ops, refreshedFor, renewalVars, sseVars, normVars, auth>>

\* An open EventSource of the hook delivers a notification event: onmessage
\* calls the provider's onNotification.
StreamPush(n) ==
    /\ streamStarted
    /\ n.userId = streamUser
    /\ Len(notifications) < MaxList
    /\ unreadCount < MaxCount
    /\ RecBecomes(onNotification(RecCur, n))
    /\ RecRan("push")
    /\ UNCHANGED <<copy, streamStarted, streamUser, ops, refreshedFor, renewalVars, sseVars, normVars, auth>>

\* ---------------------------------------------------------------------
\* markAsRead, markAllAsRead, deleteNotification (the same in both copies)
\* ---------------------------------------------------------------------

\* setUnreadCount((prev) => prev - 1), without the floor.
Decrement_NoFloor(c) == c - 1

\* setUnreadCount((prev) => Math.max(0, prev - 1))
Decrement(c) == IF c - 1 > 0 THEN c - 1 ELSE 0

\* prev.map((n) => (n.id === id ? { ...n, isRead: true } : n))
MarkedRead(list, id) ==
    [i \in 1..Len(list) |->
        IF list[i].id = id THEN [list[i] EXCEPT !.isRead = TRUE] ELSE list[i]]

\* prev.map((n) => ({ ...n, isRead: true }))
AllMarkedRead(list) == [i \in 1..Len(list) |-> [list[i] EXCEPT !.isRead = TRUE]]

\* prev.filter((n) => n.id !== id)
RECURSIVE Without(_, _)
Without(list, id) ==
    IF list = <<>> THEN <<>>
    ELSE IF Head(list).id = id THEN Without(Tail(list), id)
    ELSE <<Head(list)>> \o Without(Tail(list), id)

\* notifications.find((n) => n.id === id) on the list that the function's
\* closure holds, and the test `notification && !notification.isRead`.
FoundUnread(list, id) ==
    /\ \E i \in 1..Len(list) : list[i].id = id
    /\ LET first == CHOOSE i \in 1..Len(list) :
                        /\ list[i].id = id
                        /\ \A j \in 1..(i - 1) : list[j].id # id
       IN ~list[first].isRead

\* The statements after the awaited API call of operation op.
AfterAwait(s, op) ==
    CASE op.kind = "markAsRead" ->
            [s EXCEPT !.notifications = MarkedRead(@, op.id),
                      !.unreadCount = Decrement(@)]
      [] op.kind = "markAllAsRead" ->
            [s EXCEPT !.notifications = AllMarkedRead(@),
                      !.unreadCount = 0]
      [] op.kind = "deleteNotification" ->
            [s EXCEPT !.notifications = Without(@, op.id),
                      !.unreadCount = IF op.wasUnread THEN Decrement(@) ELSE @]

FreeOps == {k \in OpIds : ops[k].kind = "none"}

\* A consumer calls one of the three functions: the function issues its API
\* call and awaits it; nothing of the provider's state changes yet.
CallOp(op) ==
    /\ FreeOps # {}
    /\ Busy(RecCur) < MaxBusy
    /\ ops' = [ops EXCEPT ![CHOOSE k \in FreeOps : \A j \in FreeOps : k <= j] = op]
    /\ RecRan("mutation")
    /\ applied' = NotApplied
    /\ settled' = NoneSettled
    /\ UNCHANGED <<user, fetches, notifications, unreadCount, loading, isFetchingRef>>
    /\ UNCHANGED <<copy, streamStarted, streamUser, refreshedFor, renewalVars, sseVars, normVars, auth>>

markAsRead(id) == CallOp([kind |-> "markAsRead", id |-> id, wasUnread |-> FALSE])

markAllAsRead == CallOp([kind |-> "markAllAsRead", id |-> 0, wasUnread |-> FALSE])

\* deleteNotification reads `notifications` of the render it was created in.
deleteNotification(id) ==
    CallOp([kind |-> "deleteNotification", id |-> id,
            wasUnread |-> FoundUnread(notifications, id)])

\* The API call of operation k settles: fulfilled (ok) runs the statements
\* after the await, rejected runs the catch block, which only logs.
OpSettles(k, ok) ==
    /\ ops[k].kind # "none"
    /\ RecBecomes(IF ok THEN Returned(AfterAwait(RecCur, ops[k]), ops[k].kind)
                         ELSE Caught(RecCur, ops[k].kind))
    /\ ops' = [ops EXCEPT ![k] = IdleOp]
    /\ RecRan("mutation")
    /\ UNCHANGED <<copy, streamStarted, streamUser, refreshedFor, renewalVars, sseVars, normVars, auth>>

\* ---------------------------------------------------------------------
\* Reading the body of GET /notification: extractNotifications and
\* normalizeNotifications of part_003, the inline test of
\* notification.context.tsx
\* ---------------------------------------------------------------------

\* A field the JSON object does not have (or has as null).
Absent == "absent"

\* The items a body can carry. altId stands for the field `_id`.
RawItems ==
    [id : {Absent, "n1"}, altId : {Absent, "m1"}, notificationId : {Absent, "k1"},
     userId : {Absent, "u1"}, createdAt : {Absent, "t1"},
     priority : {Absent, "HIGH"}, isRead : {Absent, "true"},
     sentViaSSE : {Absent, "true"}]

RECURSIVE SeqsUpTo(_, _)
SeqsUpTo(S, n) ==
    IF n = 0 THEN {<<>>}
    ELSE LET shorter == SeqsUpTo(S, n - 1)
         IN shorter \cup {Append(q, x) : q \in {r \in shorter : Len(r) = n - 1}, x \in S}

RawLists == SeqsUpTo(RawItems, MaxItems)

\* The shapes a body can have: xs, {notifications: xs}, {data: {notifications:
\* xs}}, {data: xs}; each with or without `success: true` next to it.
Shapes == {"array", "notifications", "data.notifications", "data.array"}
Uuids == 1..NumUuids

\* A record's id: a text, and for a synthesized id the createdAt or the
\* random value that follows the text.
GivenId(text) == [text |-> text, createdAt |-> Absent, uuid |-> 0]

\* item?.id ?? item?._id ?? item?.notificationId ??
\*   `${item?.userId ?? "notification"}-${item?.createdAt ?? randomUUID() ?? Date.now()}`
FallbackId(item, r) ==
    IF item.id # Absent THEN GivenId(item.id)
    ELSE IF item.altId # Absent THEN GivenId(item.altId)
    ELSE IF item.notificationId # Absent THEN GivenId(item.notificationId)
    ELSE [text |-> IF item.userId # Absent THEN item.userId ELSE "notification",
          createdAt |-> item.createdAt,
          uuid |-> IF item.createdAt # Absent THEN 0 ELSE r]

\* Boolean(x) of an absent or true field.
ToBoolean(x) == IF x = "true" THEN "true" ELSE "false"

\* The record the provider keeps for an item it did not normalize.
AsReceived(item) ==
    [id |-> GivenId(item.id), priority |-> item.priority,
     isRead |-> item.isRead, sentViaSSE |-> item.sentViaSSE]

\* normalizeNotifications: r[i] is what randomUUID() returns for item i.
normalizeNotifications(items, r) ==
    [i \in 1..Len(items) |->
        [id |-> FallbackId(items[i], r[i]),
         priority |-> IF items[i].priority # Absent THEN items[i].priority ELSE "NORMAL",
         isRead |-> ToBoolean(items[i].isRead),
         sentViaSSE |-> ToBoolean(items[i].sentViaSSE)]]

NotRead == [set |-> "notRead", records |-> <<>>]

\* What setNotifications receives for a body of shape sh: a list, nothing
\* (the setter is not called), or undefined.
extractNotifications(sh, body, r) ==
    IF copy = "part_003"
    THEN [set |-> "list", records |-> normalizeNotifications(body.items, r)]
    ELSE IF ~(body.success = "true" /\ sh \in {"data.notifications", "data.array"})
    THEN [set |-> "none", records |-> <<>>]
    ELSE IF sh = "data.notifications"
    THEN [set |-> "list", records |-> [i \in 1..Len(body.items) |-> AsReceived(body.items[i])]]
    ELSE [set |-> "undefined", records |-> <<>>]

\* The provider reads the body in shape sh.
ReadBody(sh, r) ==
    /\ results[sh] = NotRead
    /\ results' = [results EXCEPT ![sh] = extractNotifications(sh, raw, r)]
    /\ UNCHANGED <<raw, apiVars, sseVars, recVars, auth>>

InitNormVars(bodies) ==
    /\ raw \in bodies
    /\ results = [sh \in Shapes |-> NotRead]

\* =====================================================================
\* Session Boundary: AuthProvider (auth.context.tsx; part_001 is a later copy)
\* =====================================================================

AuthIds == 1..NumAuthCalls

IdleAuth == [op |-> "none"]

NoAuthEvent == [op |-> "none", outcome |-> "none"]

\* What an awaited apiService call gives its caller: a body with the user, a
\* body without data, a rejection with a status, a rejection without response.
AuthOutcomes == {"user", "nodata", "401", "500", "network"}

\* auth.context.tsx goes with notification.context.tsx, part_001 with part_003.
NamedAuth == copy = "context"

\* useState(null), useState(true), useRef(false): the component before its effect ran.
InitAuth ==
    auth = [loading |-> TRUE, hasCheckedAuth |-> FALSE, isCheckingAuth |-> FALSE,
            effectRuns |-> 0, calls |-> [k \in AuthIds |-> IdleAuth], event |-> NoAuthEvent]

FreeAuth == {k \in AuthIds : auth.calls[k].op = "none"}

\* An async function of the provider runs up to its `await apiService...`.
Awaiting(a, op) ==
    LET k == CHOOSE x \in FreeAuth : \A y \in FreeAuth : x <= y
    IN [a EXCEPT !.calls[k] = [op |-> op], !.event = NoAuthEvent]

AuthOnly(A) == A /\ UNCHANGED <<renewalVars, sseVars, recVars, normVars>>

\* isCheckingAuth.current = true (part_001; the named copy has no such ref).
Checking(a) == IF NamedAuth THEN a ELSE [a EXCEPT !.isCheckingAuth = TRUE]

\* useEffect(() => { if (!hasCheckedAuth.current ...) { ...; checkAuth(); } }, [])
MountEffect ==
    /\ auth.effectRuns < MaxEffectRuns
    /\ FreeAuth # {}
    /\ LET ran == [auth EXCEPT !.effectRuns = @ + 1, !.event = NoAuthEvent]
       IN auth' = IF ~auth.hasCheckedAuth /\ (NamedAuth \/ ~auth.isCheckingAuth)
                  THEN Awaiting(Checking([ran EXCEPT !.hasCheckedAuth = TRUE]), "checkAuth")
                  ELSE ran
    /\ UNCHANGED user

\* refreshProfile(): setLoading(true); await checkAuth() (part_001 skips it while a check runs)
refreshProfile ==
    /\ FreeAuth # {}
    /\ auth' = IF ~NamedAuth /\ auth.isCheckingAuth
               THEN [auth EXCEPT !.event = NoAuthEvent]
               ELSE Awaiting(Checking([auth EXCEPT !.loading = TRUE]), "checkAuth")
    /\ UNCHANGED user

\* login(), register(), logout() up to their await.
login ==
    /\ FreeAuth # {}
    /\ auth' = Awaiting(auth, "login")
    /\ UNCHANGED user

register ==
    /\ FreeAuth # {}
    /\ auth' = Awaiting(auth, "register")
    /\ UNCHANGED user

logout ==
    /\ FreeAuth # {}
    /\ auth' = Awaiting(auth, "logout")
    /\ UNCHANGED user

\* checkAuth after getProfile() settled: the try body, or the catch block.
checkAuth(o, u) ==
    IF o = "user" THEN u
    ELSE IF o = "nodata" THEN 0
    ELSE IF NamedAuth THEN 0
    ELSE IF o = "401" THEN 0
    ELSE user

\* The awaited call of one pending function settles and the function runs to its end.
AuthSettles(k, o, u) ==
    /\ auth.calls[k].op # "none"
    /\ LET op == auth.calls[k].op
           done == [auth EXCEPT !.calls[k] = IdleAuth, !.event = [op |-> op, outcome |-> o]]
       IN CASE op = "checkAuth" ->
                 /\ user' = checkAuth(o, u)
                 /\ auth' = [done EXCEPT !.loading = FALSE, !.isCheckingAuth = FALSE]
            [] op \in {"login", "register"} ->
                 /\ user' = IF o = "user" THEN u ELSE user
                 /\ auth' = done
            [] OTHER ->
                 /\ user' = 0
                 /\ auth' = [done EXCEPT !.hasCheckedAuth = FALSE, !.isCheckingAuth = FALSE]

InitApiVars ==
    /\ req = [r \in ReqIds |-> IdleReq]
    /\ isRefreshing = FALSE
    /\ refreshAttempts = 0
    /\ pendingCont = 0
    /\ failedRenewals = 0
    /\ user = 0

InitSseVars ==
    /\ enabled = FALSE
    /\ eventSourceRef = 0
    /\ reconnectTimeoutRef = 0
    /\ isConnectingRef = FALSE
    /\ isConnected = FALSE
    /\ error = "null"
    /\ sources = [e \in ESIds |-> "none"]
    /\ timers = {}
    /\ pendingConnects = 0
    /\ cleanupRegistered = FALSE
    /\ timerDelay = [t \in TimerIds |-> 0]
    /\ lastEvent = "init"
    /\ prevEvent = "init"
    /\ stopped = FALSE
    /\ calls = NoCalls

\* The provider after its first commit with no user: the mount run of its
\* effect has set loading to false.
InitRecVars(c) ==
    /\ copy = c
    /\ fetches = [k \in FetchIds |-> IdleFetch]
    /\ notifications = <<>>
    /\ unreadCount = 0
    /\ loading = FALSE
    /\ isFetchingRef = FALSE
    /\ streamStarted = FALSE
    /\ streamUser = 0
    /\ ops = [k \in OpIds |-> IdleOp]
    /\ refreshedFor = 0
    /\ recEvent = "init"
    /\ applied = NotApplied
    /\ settled = NoneSettled

\* The body the provider-only specifications carry along unread.
NoBody == [success |-> Absent, items |-> <<>>]

Init ==
    InitApiVars /\ InitSseVars /\ InitRecVars("context") /\ InitNormVars({NoBody}) /\ InitAuth

InitRec ==
    /\ InitApiVars /\ InitSseVars /\ InitNormVars({NoBody}) /\ InitAuth
    /\ \E c \in Copies : InitRecVars(c)

InitNorm ==
    /\ InitApiVars /\ InitSseVars /\ InitAuth
    /\ InitNormVars([success : {Absent, "true"}, items : RawLists])
    /\ \E c \in Copies : InitRecVars(c)

NextApi ==
    \/ \E c \in AppIds : Issue(c)
    \/ \E r \in ReqIds, o \in Outcomes : Respond(r, o)
    \/ \E r \in ReqIds : WaitElapsed(r)
    \/ \E k \in ReqIds : Continue(k)
    \/ LoginOk
    \/ Logout

SpecApi == Init /\ [][NextApi]_vars

\* ---- the interceptor under fair scheduling ----

\* The wait branch's re-send once the model's count of sends has stopped at
\* MaxSends: the code keeps no such count and sends the call again.
ResendAtCap(r) ==
    /\ pendingCont = 0
    /\ req[r].st = "waiting"
    /\ req[r].sends = MaxSends
    /\ req' = [req EXCEPT ![r].st = "sent"]
    /\ UNCHANGED <<isRefreshing, refreshAttempts, pendingCont, failedRenewals, user>>
    /\ UNCHANGED <<sseVars, recVars, normVars, auth>>

NextApiLive ==
    \/ \E c \in AppIds : Issue(c)
    \/ \E r \in ReqIds, o \in Outcomes : Respond(r, o)
    \/ \E r \in ReqIds : WaitElapsed(r)
    \/ \E r \in ReqIds : ResendAtCap(r)
    \/ \E k \in ReqIds : Continue(k)
    \/ LoginOk
    \/ Logout

\* Every request on the wire gets its answer (or its network error) and every
\* 1000 ms timer fires: strong fairness, a macrotask is not runnable while a
\* renewer's continuation is pending, and it runs all the same once the
\* microtasks are drained. Every settled renewal resumes its renewer. Callers
\* are free to issue calls or not.
FairApi ==
    \A r \in ReqIds :
        /\ SF_vars(\E o \in Outcomes : Respond(r, o))
        /\ SF_vars(WaitElapsed(r))
        /\ SF_vars(ResendAtCap(r))
        /\ WF_vars(Continue(r))

SpecApiLive == Init /\ [][NextApiLive]_vars /\ FairApi

\* =====================================================================
\* Claims on the Transport Client (under SpecApi)
\* =====================================================================

\* C2: in every reachable state at most one renewal call (POST /users/refresh
\* issued by the 401 interceptor) is in flight.
C2_OneRenewalInFlight == Cardinality(RefreshInFlight) <= 1

\* C2 witness: a renewal is in flight while every application call has been
\* answered 401 (one renews, the others wait).
C2_Witness ==
    /\ Cardinality(RefreshInFlight) = 1
    /\ \A c \in AppIds : req[c].resp = "401" /\ req[c].st \in {"renewing", "waiting"}

\* C3 (as claimed): a request that got a 401 while a renewal was in progress
\* (it waited) never itself starts a renewal.
C3_WaiterNeverRenews == \A c \in AppIds : req[c].waitOn # "none" => req[c].started = 0

\* C4 (as claimed): the re-send of a waiting request never happens while the
\* renewal it waited on is still in flight.
C4_RetryAfterRenewalDone ==
    [][\A c \in AppIds :
         (req[c].st = "waiting" /\ req'[c].st = "sent") => req[c].waitOn = "done"]_vars

\* C5 (as claimed): every call that hits a 401 is re-sent at most once in
\* total, so it is on the wire at most twice.
C5_AtMostOneResend == \A c \in AppIds : req[c].sends <= 2

\* C6 (as claimed): once MAX_REFRESH_ATTEMPTS renewals have failed in a row,
\* the next authorization failure issues no further renewal call.
C6_NoFourthRenewal ==
    [][failedRenewals >= MAX_REFRESH_ATTEMPTS => ~RenewalIssued]_vars

\* C7: a not-yet-retried request answered 401 while no renewal is in progress
\* becomes the sole renewer (counter + 1, flag set, one renewal call issued);
\* a successful renewal resets the counter, clears the flag and re-sends the
\* renewer's call once; that re-sent call is never re-sent or renewed again.
C7_BecomesRenewer(c) ==
    (req[c].st = "sent" /\ req'[c].st = "renewing") =>
        /\ ~isRefreshing /\ isRefreshing'
        /\ refreshAttempts' = refreshAttempts + 1
        /\ RenewalIssued
        /\ Cardinality({k \in ReqIds : req'[k].url = "refresh" /\ req'[k].st = "sent"
                                        /\ req'[k].parent = c}) = 1
        /\ \A d \in AppIds \ {c} : req'[d].st # "renewing"

C7_RenewsWhenIdle(c) ==
    (req[c].st = "sent" /\ req'[c].st # "sent" /\ req'[c].resp = "401"
        /\ ~req[c].retry /\ ~isRefreshing) => req'[c].st = "renewing"

C7_RenewalSucceeded(c) ==
    (req[c].st = "renewing" /\ pendingCont # 0 /\ req[pendingCont].st = "resolved"
        /\ req[pendingCont].parent = c) =>
        /\ refreshAttempts' = 0
        /\ ~isRefreshing'
        /\ req'[c].st = "sent"
        /\ req'[c].sends = req[c].sends + 1
        /\ ~RenewalIssued

C7_RetriedOnce(c) ==
    (req[c].started >= 1 /\ req[c].st = "sent") =>
        /\ req'[c].st \in {"sent", "resolved", "rejected"}
        /\ req'[c].sends = req[c].sends
        /\ req'[c].started = req[c].started

C7_SoleRenewer ==
    [][\A c \in AppIds : C7_RenewsWhenIdle(c) /\ C7_BecomesRenewer(c)
                         /\ C7_RenewalSucceeded(c) /\ C7_RetriedOnce(c)]_vars

\* C7 witness: the renewer's call has been re-sent after a successful renewal
\* and that retry was answered 401 and rejected.
C7_Witness ==
    \E c \in AppIds :
        /\ req[c].started = 1 /\ req[c].sends = 2 /\ req[c].waitOn = "none"
        /\ req[c].st = "rejected" /\ req[c].resp = "401"
        /\ refreshAttempts = 0 /\ ~isRefreshing

\* C8: a 401 answer to the renewal call itself rejects it: it is not re-sent,
\* it does not wait and it starts no further renewal call; its renewer fails.
C8_RefreshNotIntercepted ==
    [][\A k \in ReqIds :
         /\ (req[k].url = "refresh" /\ req[k].st = "sent" /\ req'[k].st # "sent"
                /\ req'[k].resp = "401") =>
              /\ req'[k].st = "rejected"
              /\ req'[k].sends = req[k].sends
              /\ ~RenewalIssued
              /\ pendingCont' = k
         /\ (req[k].url = "refresh" /\ req[k].st = "rejected" /\ req[k].resp = "401"
                /\ pendingCont = k) =>
              /\ req'[k].st = "idle"
              /\ req'[req[k].parent].st = "rejected"
              /\ ~RenewalIssued]_vars

\* C8 witness: the renewal call has been answered 401 and rejected.
C8_Witness ==
    \E k \in ReqIds : req[k].url = "refresh" /\ req[k].st = "rejected" /\ req[k].resp = "401"

\* C9: a call that gets no response is rejected; the renewal flag, the attempt
\* counter and the number of renewal calls are unchanged and it is not re-sent.
C9_NetworkFailureRejected ==
    [][\A r \in ReqIds :
         (req[r].st = "sent" /\ req'[r].st # "sent" /\ req'[r].resp = "network") =>
              /\ req'[r].st = "rejected"
              /\ req'[r].sends = req[r].sends
              /\ req'[r].retry = req[r].retry
              /\ isRefreshing' = isRefreshing
              /\ refreshAttempts' = refreshAttempts
              /\ ~RenewalIssued]_vars

\* C9 witness: an application call failed without a response while a renewal
\* was in progress, and the renewal state is still there.
C9_Witness ==
    \E c \in AppIds :
        /\ req[c].st = "rejected" /\ req[c].resp = "network"
        /\ isRefreshing /\ refreshAttempts = 1

\* C10: when the renewal call fails, the call that triggered it is rejected
\* without being re-sent and the session identity is left as it was.
C10_RenewalFailurePropagates ==
    [][(pendingCont # 0 /\ req[pendingCont].st = "rejected") =>
         /\ req'[req[pendingCont].parent].st = "rejected"
         /\ req'[req[pendingCont].parent].sends = req[req[pendingCont].parent].sends
         /\ user' = user]_vars

\* C10 witness: a logged-in user's call was rejected after its renewal failed,
\* never having been re-sent.
C10_Witness ==
    \E c \in AppIds :
        /\ req[c].st = "rejected" /\ req[c].started = 1 /\ req[c].sends = 1
        /\ failedRenewals >= 1
        /\ user # 0

NextSSE ==
    \/ \E e \in BOOLEAN : HookOnly(SetEnabled(e))
    \/ HookOnly(DelayElapsed)
    \/ \E e \in ESIds : HookOnly(ESOpen(e))
    \/ \E e \in ESIds, kind \in MessageKinds : HookOnly(ESMessage(e, kind))
    \/ \E e \in ESIds, fatal \in BOOLEAN : HookOnly(ESError(e, fatal))
    \/ \E t \in TimerIds : HookOnly(TimerFire(t))
    \/ HookOnly(Disconnect)

SpecSSE == Init /\ [][NextSSE]_vars

NextRec ==
    \/ \E u \in 0..NumUsers : SetUser(u)
    \/ Refresh
    \/ \E k \in FetchIds, o \in Settlements : ListResponds(k, o)
    \/ \E k \in FetchIds, o \in Settlements : CountResponds(k, o)
    \/ StreamConnected
    \/ \E u \in UserIds, i \in 1..NumNotifs : StreamPush(Notif(i, u))

SpecRec == InitRec /\ [][NextRec]_vars

NextAuth ==
    \/ AuthOnly(MountEffect)
    \/ AuthOnly(refreshProfile)
    \/ AuthOnly(login)
    \/ AuthOnly(register)
    \/ AuthOnly(logout)
    \/ \E k \in AuthIds, o \in AuthOutcomes, u \in UserIds : AuthOnly(AuthSettles(k, o, u))

SpecAuth == InitRec /\ [][NextAuth]_vars

\* Every shape of one body is read, in any order.
NextNorm == \E sh \in Shapes, r \in [1..MaxItems -> Uuids] : ReadBody(sh, r)

SpecNorm == InitNorm /\ [][NextNorm]_vars

\* The provider with its consumers' calls of the three mutating functions
\* (onConnected, which changes nothing of the provider, is left to SpecRec).
NextOps ==
    \/ \E u \in 0..NumUsers : SetUser(u)
    \/ Refresh
    \/ \E k \in FetchIds, o \in Settlements : ListResponds(k, o)
    \/ \E k \in FetchIds, o \in Settlements : CountResponds(k, o)
    \/ \E u \in UserIds, i \in 1..NumNotifs : StreamPush(Notif(i, u))
    \/ \E id \in NotifIds : markAsRead(id)
    \/ markAllAsRead
    \/ \E id \in NotifIds : deleteNotification(id)
    \/ \E k \in OpIds, ok \in BOOLEAN : OpSettles(k, ok)

SpecOps == InitRec /\ [][NextOps]_vars

\* =====================================================================
\* Claims on the Stream Client (under SpecSSE)
\* =====================================================================

\* C1 (as claimed): in every reachable state at most one streaming connection
\* (an EventSource created and not closed) exists.
C1_AtMostOneConnection == Cardinality(LiveSources) <= 1

\* C11 (as claimed): once stop() has been called (the effect's cleanup or the
\* exposed disconnect) and until a later start, no handler invokes the
\* connected callback or the notification callback.
C11_NoCallbackAfterStop == stopped => calls = NoCalls

\* C12 (as claimed): in the state that stop() leaves, no connection is alive,
\* no reconnect timer is armed, both refs are null, the connecting flag is
\* false and isConnected is false. (Calling it again from there, or before any
\* start, changes nothing: cleanup(cleanup(s)) = cleanup(s).)
C12_StopReleasesAll ==
    lastEvent = "stop" =>
        /\ LiveSources = {}
        /\ timers = {}
        /\ eventSourceRef = 0
        /\ reconnectTimeoutRef = 0
        /\ ~isConnectingRef
        /\ ~isConnected
        /\ cleanup(Cur) = Cur

\* The hook holds a connection (being established or open) or is in the
\* pre-connect delay of connect().
ConnectingOrOpen == eventSourceRef # 0 \/ isConnectingRef

\* C13: a start (the effect running with enabled) or a connect() call from the
\* reconnect timer, made while the hook is Connecting or Open, creates no
\* connection, begins no connect, arms no timer and leaves the connection
\* state (refs, flags, isConnected, error) as it was.
C13_StartWhileActiveIsNoOp ==
    [][(ConnectingOrOpen /\ lastEvent' \in {"start", "timer"}) =>
          /\ sources' = sources
          /\ pendingConnects' = pendingConnects
          /\ timers' \subseteq timers
          /\ eventSourceRef' = eventSourceRef
          /\ isConnectingRef' = isConnectingRef
          /\ isConnected' = isConnected
          /\ error' = error]_vars

\* A start has just run against a hook that already held a connection.
C13_Witness == lastEvent = "start" /\ eventSourceRef # 0

\* C14 (as claimed): at most one reconnection timer is armed at any time.
C14_AtMostOneTimer == Cardinality(timers) <= 1

\* The states of the scenario of C15, told by what exists, not only by the refs.
OpenOnly ==
    /\ eventSourceRef # 0
    /\ sources[eventSourceRef] = "open"
    /\ LiveSources = {eventSourceRef}
    /\ timers = {}
    /\ pendingConnects = 0

Reconnecting ==
    /\ eventSourceRef = 0
    /\ ~isConnectingRef
    /\ ~isConnected
    /\ LiveSources = {}
    /\ timers = {reconnectTimeoutRef}
    /\ pendingConnects = 0

Closed ==
    /\ eventSourceRef = 0
    /\ ~isConnectingRef
    /\ ~isConnected
    /\ LiveSources = {}
    /\ timers = {}
    /\ pendingConnects = 0

\* C15: an error on the single open connection leads to Reconnecting; a stop
\* during Reconnecting cancels the timer and leads to Closed; and from Closed,
\* as long as no start happens, the hook stays Closed (no connection is
\* created) and the connected callback is not invoked.
C15_StopDuringReconnect ==
    [][/\ (OpenOnly /\ lastEvent' = "error") => Reconnecting'
       /\ (Reconnecting /\ lastEvent' = "stop") => Closed'
       /\ (Closed /\ lastEvent' # "start") => (Closed' /\ calls'.connected = 0)]_vars

\* The stop came right after the error and left the hook Closed.
C15_Witness == prevEvent = "error" /\ lastEvent = "stop" /\ Closed /\ isConnected = FALSE /\ error = "null"

C17_OpenNotifiesOnce ==
    /\ lastEvent = "open" =>
          (isConnected /\ ~isConnectingRef /\ error = "null" /\ calls.connected = 1)
    /\ calls.connected # 0 => lastEvent = "open"

C17_Witness == lastEvent = "open" /\ calls.connected = 1 /\ isConnected

\* =====================================================================
\* Claims on the Reconciler (under SpecRec)
\* =====================================================================

\* A request of some fetchNotifications() call is outstanding in slot k.
Outstanding(k) == fetches[k].list = "pending" \/ fetches[k].count = "pending"

\* C18: the step in which a stream open reaches the provider (onopen calling
\* onConnected, and the render that follows) issues no list request and no
\* count request, and starts no refresh.
C18_ConnectedIssuesNoFetch ==
    [][recEvent' = "connected" =>
          /\ fetches' = fetches
          /\ loading' = loading
          /\ isFetchingRef' = isFetchingRef]_vars

\* The stream opened for a logged-in user whose login refresh is already
\* over: a refresh from the connect path would be a second one.
C18_Witness ==
    /\ recEvent = "connected"
    /\ user # 0
    /\ \A k \in FetchIds : fetches[k] = IdleFetch

\* C19 (as claimed): at most one list-request/count-request pair has a request
\* outstanding at any time.
C19_AtMostOnePair == Cardinality({k \in FetchIds : Outstanding(k)}) <= 1

\* C20 (as claimed): a refresh completion never replaces the unread counter
\* without the notification set, nor the set without the counter.
C20_SetAndCounterTogether == applied.set = applied.count

\* C21 (as claimed): the notification list never holds two records with the
\* same id.
C21_NoDuplicateIds ==
    \A i, j \in 1..Len(notifications) :
        i # j => notifications[i].id # notifications[j].id

\* C22 (as claimed): a stream push adds one to the unread counter if the
\* pushed record is unread and its id was not in the list, and leaves the
\* counter as it was otherwise.
C22_PushCountsOnce ==
    [][recEvent' = "push" =>
          LET n == Head(notifications')
              fresh == ~n.isRead /\ \A i \in 1..Len(notifications) : notifications[i].id # n.id
          IN unreadCount' = unreadCount + (IF fresh THEN 1 ELSE 0)]_vars

\* C23 (as claimed): when a refresh has just applied a page holding the one
\* unread record n1 together with the server count 1, the push of n1 leaves
\* the counter at 1.
C23_PushAndRefreshCountOne ==
    [][\A u \in UserIds :
          (/\ applied.set /\ applied.count
           /\ notifications = Page(1, u) /\ unreadCount = 1
           /\ recEvent' = "push" /\ Head(notifications') = Notif(1, u))
          => unreadCount' = 1]_vars

\* C24 (as claimed): when the current user logged in from the absent state
\* (the stream is theirs) and the page of the refresh issued for them has
\* replaced the list, the list holds no record of another user.
C24_OnlyOwnRecords ==
    (refreshedFor # 0 /\ streamUser = user) =>
        \A i \in 1..Len(notifications) : notifications[i].userId = user

\* C25 (as claimed): while the identity is absent (enabled = !!user is false)
\* the Stream Client is stopped: no connection is alive, no reconnect timer is
\* armed and isConnected is false.
C25_AbsentMeansStopped ==
    ~enabled => (LiveSources = {} /\ timers = {} /\ ~isConnected)

\* C26 (as claimed): the step in which the user goes from absent to present
\* starts exactly one refresh, for that user.
C26_LoginRefreshesOnce ==
    [][(user = 0 /\ user' # 0) =>
          \E k \in FetchIds :
              /\ ~fetches[k].running
              /\ fetches'[k].running /\ fetches'[k].owner = user'
              /\ \A j \in FetchIds \ {k} : fetches'[j] = fetches[j]]_vars

\* C27 (as claimed): the step in which the user changes from one identity to a
\* different one clears the list and the counter and starts a refresh for the
\* new identity.
C27_IdentityChangeClears ==
    [][(user # 0 /\ user' # 0 /\ user' # user) =>
          /\ notifications' = <<>>
          /\ unreadCount' = 0
          /\ \E k \in FetchIds : fetches'[k].running /\ fetches'[k].owner = user']_vars

\* C28 (as claimed): the step in which markAsRead(id) is called for an unread
\* record of the list already shows the record as read, before the API call
\* settles.
C28_MarkAsReadIsOptimistic ==
    [][\A k \in OpIds, i \in 1..Len(notifications) :
          (/\ ops[k].kind = "none" /\ ops'[k].kind = "markAsRead"
           /\ notifications[i].id = ops'[k].id /\ ~notifications[i].isRead)
          => (Len(notifications') = Len(notifications) /\ notifications'[i].isRead)]_vars

\* C29 (as claimed): when a markAsRead(id) settles and the record with that id
\* in the list is already read, the unread counter keeps its value.
C29_ReadAgainKeepsCounter ==
    [][\A k \in OpIds :
          (/\ ops[k].kind = "markAsRead" /\ ops'[k].kind = "none"
           /\ \E i \in 1..Len(notifications) : notifications[i].id = ops[k].id
           /\ \A i \in 1..Len(notifications) :
                 notifications[i].id = ops[k].id => notifications[i].isRead)
          => unreadCount' = unreadCount]_vars

\* C30: the unread counter is never negative, whatever the interleaving of
\* refreshes, pushes, markAsRead, markAllAsRead, deleteNotification and
\* identity changes.
C30_CounterNeverNegative == unreadCount >= 0

\* C30 witness: a mutating call has just settled, the counter is 0, and the
\* list holds a read record next to an unread one (a markAsRead was applied,
\* and the counter is at the floor although an unread record is listed).
C30_Witness ==
    /\ recEvent = "mutation"
    /\ \A k \in OpIds : ops[k] = IdleOp
    /\ unreadCount = 0
    /\ \E i, j \in 1..Len(notifications) :
          notifications[i].isRead /\ ~notifications[j].isRead

\* C31 (as claimed): when a deleteNotification(id) settles and removes a
\* record, the unread counter goes down by one if the removed record was
\* unread at that time and keeps its value if it was read; when it removes
\* nothing (the id is not in the list, or the API call failed) the counter
\* keeps its value.
C31_DeleteCountsRemovedRecord ==
    [][\A k \in OpIds :
          (ops[k].kind = "deleteNotification" /\ ops'[k].kind = "none") =>
              IF notifications' # notifications
              THEN /\ notifications' = Without(notifications, ops[k].id)
                   /\ unreadCount' = IF FoundUnread(notifications, ops[k].id)
                                     THEN Decrement(unreadCount) ELSE unreadCount
              ELSE unreadCount' = unreadCount]_vars

\* C32 (as claimed): when a markAllAsRead() call has finished, every record
\* of the list is read, no record was added, removed or moved, and the unread
\* counter is 0.
C32_MarkAllAsReadEffect ==
    [][settled'.op = "markAllAsRead" =>
          /\ Len(notifications') = Len(notifications)
          /\ \A i \in 1..Len(notifications) :
                notifications'[i] = [notifications[i] EXCEPT !.isRead = TRUE]
          /\ unreadCount' = 0]_vars

\* C36: no operation of the provider (fetchNotifications, markAsRead,
\* markAllAsRead, deleteNotification) ends by throwing to its caller, whether
\* its API calls are fulfilled or rejected.
C36_NoFailureReachesCaller == settled.how # "thrown"

\* C36 witness: a deleteNotification whose API call was rejected has just
\* finished in its catch block, with the list left as it was.
C36_Witness ==
    /\ settled = [op |-> "deleteNotification", how |-> "caught"]
    /\ notifications # <<>>

\* C38: the step in which a fetchNotifications() call finishes leaves loading
\* false and the in-flight guard released, and when it finishes because one of
\* its requests was rejected it leaves the list and the unread counter as
\* they were.
C38_FailedRefreshKeepsState ==
    [][settled'.op = "fetchNotifications" =>
          /\ ~loading' /\ ~isFetchingRef'
          /\ settled'.how = "caught" =>
                (notifications' = notifications /\ unreadCount' = unreadCount)]_vars

\* C38 witness: a refresh has just failed in a provider that shows a record
\* and a non-zero counter; loading is false and the guard is released.
C38_Witness ==
    /\ settled = [op |-> "fetchNotifications", how |-> "caught"]
    /\ notifications # <<>> /\ unreadCount > 0
    /\ ~loading /\ ~isFetchingRef

\* The list and counter after the step, as AfterAwait takes them.
DataAfterStep == [notifications |-> notifications', unreadCount |-> unreadCount']

\* Operations k and j await their API calls for the same record id, each a
\* markAsRead or a deleteNotification, and the list holds that record once,
\* unread.
PendingPairOn(k, j, id) ==
    /\ k # j
    /\ ops[k].kind \in {"markAsRead", "deleteNotification"} /\ ops[k].id = id
    /\ ops[j].kind \in {"markAsRead", "deleteNotification"} /\ ops[j].id = id
    /\ Cardinality({i \in 1..Len(notifications) : notifications[i].id = id}) = 1
    /\ FoundUnread(notifications, id)

\* C39 (as claimed): when the first of two operations pending on the same
\* unread record succeeds, the counter goes down by one, and the success of the
\* second one, coming next, does not lower it again.
C39_PairDecrementsOnce ==
    [][\A k, j \in OpIds, id \in NotifIds :
          (/\ PendingPairOn(k, j, id)
           /\ unreadCount > 0
           /\ settled' = [op |-> ops[k].kind, how |-> "ok"]
           /\ ops'[k] = IdleOp /\ ops'[j] = ops[j])
          => /\ unreadCount' = unreadCount - 1
             /\ AfterAwait(DataAfterStep, ops'[j]).unreadCount = unreadCount']_vars

\* C33 (as claimed): every shape of a body that has been read gave a list
\* with one record per item; any two shapes gave the same records; a missing
\* priority became NORMAL, a missing isRead false, a missing sentViaSSE false;
\* and every record has a non-empty id.
C33_NormalizationCanonical ==
    \A a \in Shapes :
        results[a] # NotRead =>
            /\ results[a].set = "list"
            /\ Len(results[a].records) = Len(raw.items)
            /\ \A b \in Shapes : results[b] # NotRead => results[b] = results[a]
            /\ \A i \in 1..Len(results[a].records) :
                  LET rec == results[a].records[i]
                      item == raw.items[i]
                  IN /\ rec.id.text # Absent
                     /\ rec.priority = IF item.priority = Absent THEN "NORMAL" ELSE item.priority
                     /\ rec.isRead = IF item.isRead = Absent THEN "false" ELSE item.isRead
                     /\ rec.sentViaSSE =
                           IF item.sentViaSSE = Absent THEN "false" ELSE item.sentViaSSE

\* C34: the step in which a renewal succeeds (the renewer resumes after a
\* fulfilled refreshToken()) and the step in which a login succeeds both
\* leave refreshAttempts at 0.
C34_AttemptsResetOnSuccess ==
    [][(\/ (pendingCont # 0 /\ req[pendingCont].st = "resolved")
        \/ (user = 0 /\ user' # 0))
       => refreshAttempts' = 0]_vars

\* C34 witness: a user is logged in and a renewal that had raised the counter
\* has succeeded: the renewer's call is on the wire again, no renewal is in
\* flight, and the counter is 0.
C34_Witness ==
    /\ user # 0
    /\ refreshAttempts = 0
    /\ RefreshInFlight = {}
    /\ \E c \in AppIds :
          req[c].st = "sent" /\ req[c].retry /\ req[c].started = 1 /\ req[c].sends = 2
\* C37: under fair scheduling every call the interceptor holds after a 401
\* (waiting its 1000 ms, or awaiting the renewal it started) eventually settles.
C37_InterceptedCallSettles ==
    \A c \in AppIds :
        (req[c].st \in {"waiting", "renewing"}) ~> (req[c].st \in {"resolved", "rejected"})

\* C40 (as claimed): isConnected is true only while the hook holds a
\* connection that is open and not closed; while the stream is stopped, and
\* while the hook waits for its reconnect timer without a connection,
\* isConnected is false.
C40_ConnectedOnlyWhileOpen ==
    /\ isConnected => (eventSourceRef # 0 /\ sources[eventSourceRef] = "open")
    /\ stopped => ~isConnected
    /\ (eventSourceRef = 0 /\ timers # {}) => ~isConnected

\* C35 (as claimed): when a call of the identity layer other than logout()
\* ends without a response, the user is what it was before.
C35_NetworkFailureKeepsIdentity ==
    [][(auth'.event.outcome = "network" /\ auth'.event.op # "logout") => user' = user]_vars

====
